---------------------------- MODULE Spec2Model ----------------------------
(***************************************************************************)
(* Model of the token-vote page of vulalabs/memecoinvote                   *)
(* (src/app/page.tsx, component Home).                                     *)
(*                                                                         *)
(* The component subscribes to the Firestore collection 'coins'; every     *)
(* snapshot callback fetches the Jupiter token list, joins it with the     *)
(* vote documents and stores the result in React state.  handleLike and    *)
(* handleDislike send setDoc(..., {field: increment(1)}, {merge: true}).   *)
(* The rendered list is tokens filtered by the search term and sorted by   *)
(* likes.                                                                  *)
(*                                                                         *)
(* Strings are sequences of one-character strings, so that toLowerCase     *)
(* and includes are computed rather than assumed.  Only the address and    *)
(* name of a token descriptor are modelled; its other fields are copied    *)
(* through the join by the object spread and are read by nothing here.     *)
(***************************************************************************)
EXTENDS Integers, Sequences, FiniteSets, Bags

VARIABLES
    store,          \* remote collection 'coins': document id -> fields
    snapshotDue,    \* the listener owes the session a snapshot
    mounted,        \* the effect is live (unsubscribe has not run)
    subErrored,     \* the listener's error callback has fired
    handlers,       \* snapshot callbacks suspended at `await fetchJupiterTokens()`
    fetchCount,     \* number of fetch() calls issued by the session
    tokens,         \* React state: Token[]
    searchTerm,     \* React state: string
    isLoading,      \* React state: boolean
    pendingWrites,  \* bag of this session's setDoc calls not yet settled
    applied,        \* history: increments the store has acknowledged, per id and field
    raced,          \* history: an increment landed while another one for the
                    \* same id and field was still in flight
    unhandledRejection, \* a promise returned by handleLike/handleDislike
                    \* rejected with nobody awaiting or catching it
    last            \* history: how the most recently finished callback ended,
                    \* and the callback whose join the token list holds

vars == <<store, snapshotDue, mounted, subErrored, handlers, fetchCount,
          tokens, searchTerm, isLoading, pendingWrites,
          applied, raced, unhandledRejection, last>>

---------------------------------------------------------------------------
(* Bounds of the exploration *)

MaxDeliveries == 2
MaxVotes == 2
MaxTokens == 4
MaxLikes == 2

---------------------------------------------------------------------------
(* Data *)

Fields == {"likes", "dislikes"}

AddrA1 == <<"A", "1">>
AddrB2 == <<"B", "2">>
AddrFoo9 == <<"f", "O", "o", "9">>
AddrC3 == <<"C", "3">>
AddrX9 == <<"X", "9">>

FooToken == [address |-> AddrA1, name |-> <<"F", "o", "o", " ", "T">>]
BarToken == [address |-> AddrB2, name |-> <<"B", "a", "r">>]
ZedToken == [address |-> AddrFoo9, name |-> <<"Z", "e", "d">>]
QuxToken == [address |-> AddrC3, name |-> <<"q", "u", "x">>]

JupiterTokens == {FooToken, BarToken, ZedToken, QuxToken}

\* Document ids that votes are cast on; AddrX9 is in no catalog.
Addresses == {AddrA1, AddrX9}

\* Bodies the catalog endpoint answers with.
CatalogOne == <<FooToken, BarToken>>
CatalogTwo == <<BarToken>>

\* What one call of fetch() + response.json() can end as.
FetchOutcomes ==
    { [kind |-> "ok", data |-> CatalogOne],
      [kind |-> "ok", data |-> CatalogTwo],
      [kind |-> "okNotArray", data |-> <<>>],
      [kind |-> "transportError", data |-> <<>>],
      [kind |-> "httpError", data |-> <<>>],
      [kind |-> "decodeError", data |-> <<>>] }

FetchFailures == {"transportError", "httpError", "decodeError"}

\* Values typed into the search input.
SearchTerms == { <<>>, <<"f", "o", "o">>, <<"B">>, <<"F", "O">>, <<"x">> }

\* Those typed while votes are being cast.
SessionTerms == { <<>>, <<"B">> }

---------------------------------------------------------------------------
(* fetchJupiterTokens *)

\* What `await fetchJupiterTokens()` hands the callback: an array (tag
\* "array", its items), a JSON value that is no array (tag "notArray"), or
\* a rejection (tag "rejected").
Returned(tag, items) == [tag |-> tag, items |-> items]

fetchJupiterTokensRethrow(outcome) ==
    IF outcome.kind = "ok" THEN Returned("array", outcome.data)
    ELSE IF outcome.kind = "okNotArray" THEN Returned("notArray", <<>>)
    ELSE Returned("rejected", <<>>)

\* try { fetch; if (!response.ok) throw; return await response.json() }
\* catch { return [] }
fetchJupiterTokens(outcome) ==
    IF outcome.kind = "ok" THEN Returned("array", outcome.data)
    ELSE IF outcome.kind = "okNotArray" THEN Returned("notArray", <<>>)
    ELSE Returned("array", <<>>)

---------------------------------------------------------------------------
(* The join of the snapshot callback *)

\* firebaseData[address]?.field || 0
FieldOrZero(firebaseData, address, field) ==
    IF address \in DOMAIN firebaseData /\ field \in DOMAIN firebaseData[address]
    THEN (IF firebaseData[address][field] = 0 THEN 0 ELSE firebaseData[address][field])
    ELSE 0

combinedTokensSwapped(jupiterTokens, firebaseData) ==
    [i \in 1..Len(jupiterTokens) |->
        [address  |-> jupiterTokens[i].address,
         name     |-> jupiterTokens[i].name,
         likes    |-> FieldOrZero(firebaseData, jupiterTokens[i].address, "dislikes"),
         dislikes |-> FieldOrZero(firebaseData, jupiterTokens[i].address, "likes")]]

\* jupiterTokens.map(jToken => ({...jToken, likes: ..., dislikes: ...}))
combinedTokens(jupiterTokens, firebaseData) ==
    [i \in 1..Len(jupiterTokens) |->
        [address  |-> jupiterTokens[i].address,
         name     |-> jupiterTokens[i].name,
         likes    |-> FieldOrZero(firebaseData, jupiterTokens[i].address, "likes"),
         dislikes |-> FieldOrZero(firebaseData, jupiterTokens[i].address, "dislikes")]]

\* The try block of the callback throws: `.map` of a value that is no array,
\* or a rejection coming out of the awaited call.
TryBlockThrows(jupiterTokens) == jupiterTokens.tag # "array"

---------------------------------------------------------------------------
(* The derived view *)

Lower(c) ==
    CASE c = "A" -> "a" [] c = "B" -> "b" [] c = "C" -> "c" [] c = "F" -> "f"
      [] c = "O" -> "o" [] c = "T" -> "t" [] c = "X" -> "x" [] c = "Z" -> "z"
      [] OTHER -> c

\* String.prototype.toLowerCase
toLowerCase(s) == [i \in 1..Len(s) |-> Lower(s[i])]

\* String.prototype.includes
includes(s, sub) ==
    \E i \in 0..(Len(s) - Len(sub)) : SubSeq(s, i + 1, i + Len(sub)) = sub

MatchesNameOnly(token, term) ==
    includes(toLowerCase(token.name), toLowerCase(term))

\* The predicate handed to filter
Matches(token, term) ==
    \/ includes(toLowerCase(token.name), toLowerCase(term))
    \/ includes(toLowerCase(token.address), toLowerCase(term))

compareAscending(a, b) == a.likes - b.likes

\* The comparator handed to sort
compare(a, b) == b.likes - a.likes

\* Array.prototype.sort is stable: x goes in front of the first element the
\* comparator orders strictly after it.
InsertSorted(sorted, x) ==
    LET after == {i \in 1..Len(sorted) : compare(sorted[i], x) > 0}
        k == IF after = {} THEN Len(sorted) + 1
             ELSE CHOOSE i \in after : \A j \in after : i <= j
    IN  SubSeq(sorted, 1, k - 1) \o <<x>> \o SubSeq(sorted, k, Len(sorted))

RECURSIVE SortTokens(_)
SortTokens(s) ==
    IF s = <<>> THEN <<>>
    ELSE InsertSorted(SortTokens(SubSeq(s, 1, Len(s) - 1)), s[Len(s)])

filteredAndSortedTokens ==
    SortTokens(SelectSeq(tokens, LAMBDA token : Matches(token, searchTerm)))

---------------------------------------------------------------------------
(* The store *)

NoDoc == [x \in {} |-> 0]

DocOf(coll, id) == IF id \in DOMAIN coll THEN coll[id] ELSE NoDoc

\* The number a field of a document stands for (absent: 0).
FieldValue(coll, id, field) ==
    IF id \in DOMAIN coll /\ field \in DOMAIN coll[id] THEN coll[id][field] ELSE 0

TotalVotes(coll) ==
    LET RECURSIVE Sum(_)
        Sum(S) == IF S = {} THEN 0
                  ELSE LET p == CHOOSE q \in S : TRUE
                       IN  FieldValue(coll, p[1], p[2]) + Sum(S \ {p})
    IN  Sum(Addresses \X Fields)

setDocOverwrite(coll, id, field) ==
    [d \in DOMAIN coll \cup {id} |->
        IF d = id THEN [f \in {field} |-> FieldValue(coll, id, field) + 1]
        ELSE coll[d]]

setDocConstant(coll, id, field) ==
    [d \in DOMAIN coll \cup {id} |->
        IF d = id
        THEN [f \in DOMAIN DocOf(coll, id) \cup {field} |->
                 IF f = field THEN 1 ELSE coll[id][f]]
        ELSE coll[d]]

\* setDoc(doc(db, 'coins', id), {field: increment(1)}, {merge: true}) as the
\* store applies it
setDocIncrement(coll, id, field) ==
    [d \in DOMAIN coll \cup {id} |->
        IF d = id
        THEN [f \in DOMAIN DocOf(coll, id) \cup {field} |->
                 IF f = field THEN FieldValue(coll, id, field) + 1 ELSE coll[id][f]]
        ELSE coll[d]]

Write(id, field) == [address |-> id, field |-> field]

\* The store applies an increment; the listener owes a new snapshot.
StoreApply(id, field) ==
    /\ store' = setDocIncrement(store, id, field)
    /\ applied' = [applied EXCEPT ![<<id, field>>] = @ + 1]
    /\ snapshotDue' = TRUE

---------------------------------------------------------------------------
(* The session *)

NoResult == [kind |-> "none", fetchFailed |-> FALSE, jupiterTokens |-> <<>>,
             everJoined |-> FALSE, shownId |-> 0]

Init ==
    /\ store = NoDoc
    /\ snapshotDue = TRUE
    /\ mounted = TRUE
    /\ subErrored = FALSE
    /\ handlers = {}
    /\ fetchCount = 0
    /\ tokens = <<>>
    /\ searchTerm = <<>>
    /\ isLoading = TRUE
    /\ pendingWrites = EmptyBag
    /\ applied = [w \in Addresses \X Fields |-> 0]
    /\ raced = FALSE
    /\ unhandledRejection = FALSE
    /\ last = NoResult

\* snapshot.docs.forEach(doc => { firebaseData[doc.id] = doc.data() })
firebaseDataOf(snapshot) == [id \in DOMAIN snapshot |-> snapshot[id]]

SnapshotDeliveredEager ==
    /\ mounted /\ ~subErrored /\ snapshotDue
    /\ fetchCount < MaxDeliveries
    /\ handlers' = handlers \cup
           {[id |-> fetchCount + 1, firebaseData |-> firebaseDataOf(store)]}
    /\ fetchCount' = fetchCount + 1
    /\ snapshotDue' = FALSE
    /\ isLoading' = FALSE
    /\ UNCHANGED <<store, mounted, subErrored, tokens, searchTerm,
                   pendingWrites, applied, raced, last, unhandledRejection>>

\* The listener calls the snapshot callback, which runs up to
\* `await fetchJupiterTokens()`: it copies the documents and issues the fetch.
SnapshotDelivered ==
    /\ mounted /\ ~subErrored /\ snapshotDue
    /\ fetchCount < MaxDeliveries
    /\ handlers' = handlers \cup
           {[id |-> fetchCount + 1, firebaseData |-> firebaseDataOf(store)]}
    /\ fetchCount' = fetchCount + 1
    /\ snapshotDue' = FALSE
    /\ UNCHANGED <<store, mounted, subErrored, tokens, searchTerm, isLoading,
                   pendingWrites, applied, raced, last, unhandledRejection>>

\* The fetch of callback h settles as `outcome` and the callback runs to its
\* end: the join and the two setters, or the catch block.
HandlerResumes(h, outcome) ==
    LET jupiterTokens == fetchJupiterTokens(outcome)
    IN  /\ h \in handlers
        /\ handlers' = handlers \ {h}
        /\ IF TryBlockThrows(jupiterTokens)
           THEN /\ UNCHANGED tokens
                /\ last' = [kind |-> "caught",
                            fetchFailed |-> outcome.kind \in FetchFailures,
                            jupiterTokens |-> <<>>,
                            everJoined |-> last.everJoined,
                            shownId |-> last.shownId]
           ELSE /\ tokens' = combinedTokens(jupiterTokens.items, h.firebaseData)
                /\ last' = [kind |-> "joined",
                            fetchFailed |-> outcome.kind \in FetchFailures,
                            jupiterTokens |-> jupiterTokens.items,
                            everJoined |-> TRUE,
                            shownId |-> h.id]
        /\ isLoading' = FALSE
        /\ UNCHANGED <<store, snapshotDue, mounted, subErrored, fetchCount,
                       searchTerm, pendingWrites, applied, raced,
                       unhandledRejection>>

\* The listener's error callback
SnapshotError ==
    /\ mounted /\ ~subErrored
    /\ subErrored' = TRUE
    /\ isLoading' = FALSE
    /\ UNCHANGED <<store, snapshotDue, mounted, handlers, fetchCount, tokens,
                   searchTerm, pendingWrites, applied, raced, last,
                   unhandledRejection>>

\* The effect's cleanup: unsubscribe()
Unmount ==
    /\ mounted
    /\ mounted' = FALSE
    /\ UNCHANGED <<store, snapshotDue, subErrored, handlers, fetchCount,
                   tokens, searchTerm, isLoading, pendingWrites, applied,
                   raced, last, unhandledRejection>>

\* onChange of the search input
SetSearchTerm(term) ==
    /\ mounted
    /\ term # searchTerm
    /\ searchTerm' = term
    /\ UNCHANGED <<store, snapshotDue, mounted, subErrored, handlers,
                   fetchCount, tokens, isLoading, pendingWrites, applied,
                   raced, last, unhandledRejection>>

\* The row of `address` is on screen, so its buttons can be clicked.
Rendered(address) ==
    /\ mounted /\ ~isLoading
    /\ \E i \in 1..Len(filteredAndSortedTokens) :
           filteredAndSortedTokens[i].address = address

BumpLocally(address, field) ==
    [i \in 1..Len(tokens) |->
        IF tokens[i].address = address
        THEN [tokens[i] EXCEPT ![field] = @ + 1]
        ELSE tokens[i]]

handleVoteOptimistic(address, field) ==
    /\ Rendered(address)
    /\ TotalVotes(store) + BagCardinality(pendingWrites) < MaxVotes
    /\ pendingWrites' = pendingWrites (+) SetToBag({Write(address, field)})
    /\ tokens' = BumpLocally(address, field)
    /\ UNCHANGED <<store, snapshotDue, mounted, subErrored, handlers,
                   fetchCount, searchTerm, isLoading, applied, raced, last,
                   unhandledRejection>>

\* handleLike / handleDislike up to `await setDoc(...)`
handleVote(address, field) ==
    /\ Rendered(address)
    /\ TotalVotes(store) + BagCardinality(pendingWrites) < MaxVotes
    /\ pendingWrites' = pendingWrites (+) SetToBag({Write(address, field)})
    /\ UNCHANGED <<store, snapshotDue, mounted, subErrored, handlers,
                   fetchCount, tokens, searchTerm, isLoading, applied, raced,
                   last, unhandledRejection>>

handleLike(address) == handleVote(address, "likes")

handleDislike(address) == handleVote(address, "dislikes")

\* The store applies a pending setDoc of this session.
WriteSucceeds(w) ==
    /\ BagIn(w, pendingWrites)
    /\ TotalVotes(store) < MaxVotes
    /\ pendingWrites' = pendingWrites (-) SetToBag({w})
    /\ StoreApply(w.address, w.field)
    /\ raced' = (raced \/ CopiesIn(w, pendingWrites) >= 2)
    /\ UNCHANGED <<mounted, subErrored, handlers, fetchCount, tokens,
                   searchTerm, isLoading, last, unhandledRejection>>

\* The store rejects a pending setDoc of this session (or it never arrives):
\* `await setDoc` throws inside the async handler, which has no try/catch,
\* and the promise the click handler dropped rejects.
WriteFails(w) ==
    /\ BagIn(w, pendingWrites)
    /\ pendingWrites' = pendingWrites (-) SetToBag({w})
    /\ unhandledRejection' = TRUE
    /\ UNCHANGED <<store, snapshotDue, mounted, subErrored, handlers,
                   fetchCount, tokens, searchTerm, isLoading, applied, raced,
                   last>>

\* Another visitor's handleLike / handleDislike reaches the store.
OtherVisitorVotes(address, field) ==
    /\ TotalVotes(store) < MaxVotes
    /\ StoreApply(address, field)
    /\ raced' = (raced \/ BagIn(Write(address, field), pendingWrites))
    /\ UNCHANGED <<mounted, subErrored, handlers, fetchCount, tokens,
                   searchTerm, isLoading, pendingWrites, last,
                   unhandledRejection>>

Next ==
    \/ SnapshotDelivered
    \/ \E h \in handlers : \E outcome \in FetchOutcomes : HandlerResumes(h, outcome)
    \/ SnapshotError
    \/ Unmount
    \/ \E term \in SessionTerms : SetSearchTerm(term)
    \/ \E address \in Addresses : handleLike(address)
    \/ \E address \in Addresses : handleDislike(address)
    \/ \E w \in BagToSet(pendingWrites) : WriteSucceeds(w)
    \/ \E w \in BagToSet(pendingWrites) : WriteFails(w)
    \/ \E address \in Addresses : \E field \in Fields :
           OtherVisitorVotes(address, field)

Spec == Init /\ [][Next]_vars

---------------------------------------------------------------------------
(* The derived view over every token list a join can leave *)

\* Catalog bodies: up to MaxTokens descriptors in any order, each address once.
CatalogLists ==
    {c \in UNION {[1..n -> JupiterTokens] : n \in 0..MaxTokens} :
        \A i, j \in 1..Len(c) : i # j => c[i].address # c[j].address}

\* The collection in which each descriptor has the given number of likes;
\* a document exists once its address has been voted on.
CollectionOf(likesOf) ==
    [id \in {d.address : d \in {e \in JupiterTokens : likesOf[e] > 0}} |->
        [f \in {"likes"} |->
            likesOf[CHOOSE d \in JupiterTokens : d.address = id]]]

InitView ==
    \E c \in CatalogLists : \E likesOf \in [JupiterTokens -> 0..MaxLikes] :
        /\ store = CollectionOf(likesOf)
        /\ tokens = combinedTokens(c, firebaseDataOf(store))
        /\ last = [kind |-> "joined", fetchFailed |-> FALSE,
                   jupiterTokens |-> c, everJoined |-> TRUE, shownId |-> 1]
        /\ snapshotDue = FALSE
        /\ mounted = TRUE
        /\ subErrored = FALSE
        /\ handlers = {}
        /\ fetchCount = 1
        /\ searchTerm = <<>>
        /\ isLoading = FALSE
        /\ pendingWrites = EmptyBag
        /\ applied = [w \in Addresses \X Fields |-> 0]
        /\ raced = FALSE
    /\ unhandledRejection = FALSE

NextView == \E term \in SearchTerms : SetSearchTerm(term)

SpecView == InitView /\ [][NextView]_vars

---------------------------------------------------------------------------
(* The session while nothing fails: the listener does not error, the     *)
(* component stays mounted and every catalog fetch succeeds              *)

OkOutcomes == {outcome \in FetchOutcomes : outcome.kind = "ok"}

NextHappy ==
    \/ SnapshotDelivered
    \/ \E h \in handlers : \E outcome \in OkOutcomes : HandlerResumes(h, outcome)
    \/ \E term \in SessionTerms : SetSearchTerm(term)
    \/ \E address \in Addresses : handleLike(address)
    \/ \E address \in Addresses : handleDislike(address)
    \/ \E w \in BagToSet(pendingWrites) : WriteSucceeds(w)
    \/ \E address \in Addresses : \E field \in Fields :
           OtherVisitorVotes(address, field)

SpecHappy == Init /\ [][NextHappy]_vars

---------------------------------------------------------------------------
(* The session over a collection that already holds a document when it   *)
(* starts                                                                *)

\* Documents of AddrA1 as found when the session starts: one whose likes
\* another writer has set to a value that is no count, and one created by
\* an increment of dislikes, which has no likes field.
ForeignCollections ==
    { [id \in {AddrA1} |-> [f \in {"likes"} |-> -1]],
      [id \in {AddrA1} |-> [f \in {"dislikes"} |-> 1]] }

InitForeign ==
    /\ store \in ForeignCollections
    /\ snapshotDue = TRUE
    /\ mounted = TRUE
    /\ subErrored = FALSE
    /\ handlers = {}
    /\ fetchCount = 0
    /\ tokens = <<>>
    /\ searchTerm = <<>>
    /\ isLoading = TRUE
    /\ pendingWrites = EmptyBag
    /\ applied = [w \in Addresses \X Fields |-> 0]
    /\ raced = FALSE
    /\ unhandledRejection = FALSE
    /\ last = NoResult

SpecForeign == InitForeign /\ [][Next]_vars

---------------------------------------------------------------------------
(* Properties *)

\* C1: within one session the catalog fetch is issued at most once, however
\* many snapshots the listener delivers.
C1_FetchAtMostOnce == fetchCount <= 1

\* V is the join of catalog C with tally mapping T: one entry per entry of
\* C, in C's order, carrying T's counts (0 where T has none), and no entry
\* for an address of T that C lacks.
IsJoinOf(V, C, T) ==
    /\ Len(V) = Len(C)
    /\ \A i \in 1..Len(C) :
        /\ V[i].address = C[i].address
        /\ V[i].name = C[i].name
        /\ V[i].likes = FieldValue(T, C[i].address, "likes")
        /\ V[i].dislikes = FieldValue(T, C[i].address, "dislikes")
    /\ \A id \in DOMAIN T :
        (\A i \in 1..Len(C) : C[i].address # id)
            => (\A i \in 1..Len(V) : V[i].address # id)

\* C2: whenever a snapshot callback finishes its join, the token list it
\* stores is the join of the catalog it fetched with the tally mapping of
\* its snapshot.
C2_JoinMatchesCatalogAndTally ==
    [][\A h \in handlers :
          (h \notin handlers' /\ last'.kind = "joined")
              => IsJoinOf(tokens', last'.jupiterTokens, h.firebaseData)]_vars

\* A join of a two-entry catalog with a snapshot that has votes for the
\* first entry, none for the second, and a document of an address outside
\* the catalog.
C2_Witness ==
    /\ fetchCount = 1 /\ handlers = {} /\ ~snapshotDue
    /\ last.kind = "joined"
    /\ AddrX9 \in DOMAIN store
    /\ Len(tokens) = 2
    /\ tokens[1].likes >= 1 /\ tokens[1].dislikes = 0
    /\ tokens[2].likes = 0 /\ tokens[2].dislikes = 0

\* C3: after teardown no step changes the token list or the loading flag.
C3_NoMutationAfterTeardown ==
    [][~mounted => UNCHANGED <<tokens, isLoading>>]_vars

\* C4: every field of every document equals the number of increments the
\* store has acknowledged for it, whatever their interleaving.
C4_NoLostIncrement ==
    \A id \in Addresses : \A field \in Fields :
        FieldValue(store, id, field) = applied[<<id, field>>]

\* Two increments of the likes of one address were in flight together and
\* both have landed.
C4_Witness ==
    /\ raced
    /\ applied[<<AddrA1, "likes">>] = 2
    /\ FieldValue(store, AddrA1, "likes") = 2
    /\ pendingWrites = EmptyBag

\* C5: a step that sends an increment sends exactly one and leaves the
\* token list, the loading flag and the search term alone; the token list
\* changes only in a step in which a snapshot callback finishes.
C5_VoteSendsOneAndKeepsView ==
    [][/\ (BagCardinality(pendingWrites') > BagCardinality(pendingWrites))
            => /\ BagCardinality(pendingWrites') = BagCardinality(pendingWrites) + 1
               /\ UNCHANGED <<tokens, isLoading, searchTerm>>
       /\ (tokens' # tokens) => (\E h \in handlers : h \notin handlers')]_vars

\* A like of AddrA1 is in flight and the row of AddrA1 still shows 0.
C5_Witness ==
    /\ BagIn(Write(AddrA1, "likes"), pendingWrites)
    /\ \E i \in 1..Len(tokens) :
           tokens[i].address = AddrA1 /\ tokens[i].likes = 0

\* C6: a callback whose fetch failed ends in its join (not in its catch
\* block) with an empty token list, and every finished callback leaves
\* loading false.
C6_FetchFailureGivesEmptyList ==
    /\ last.fetchFailed => (last.kind = "joined" /\ tokens = <<>>)
    /\ last.kind # "none" => ~isLoading

\* A callback whose fetch failed has finished after an earlier one.
C6_Witness == last.fetchFailed /\ fetchCount = 2 /\ handlers = {}

\* C7 as stated: loading is false only after some callback completed a join.
C7_LoadingEndsOnlyByJoin == ~isLoading => last.everJoined

\* C7 as amended: loading is false only after a callback ran to its end
\* (its join or its catch block) or the listener's error callback fired.
C7_LoadingEndsByCallbackOrError ==
    ~isLoading => (last.kind # "none" \/ subErrored)

\* The error callback alone ended loading.
C7_Witness == ~isLoading /\ subErrored /\ last.kind = "none" /\ tokens = <<>>

\* next is cur with exactly `field` of document `id` raised by one (created
\* at 1), the sibling field and every other document as they were.
IncrementedExactly(cur, next, id, field) ==
    /\ DOMAIN next = DOMAIN cur \cup {id}
    /\ \A d \in DOMAIN cur \ {id} : next[d] = cur[d]
    /\ DOMAIN next[id] = DOMAIN DocOf(cur, id) \cup {field}
    /\ next[id][field] =
           IF id \in DOMAIN cur /\ field \in DOMAIN cur[id]
           THEN cur[id][field] + 1 ELSE 1
    /\ \A g \in DOMAIN DocOf(cur, id) \ {field} : next[id][g] = cur[id][g]

\* C8: every change of the collection is one increment: one field of one
\* document up by one, created if absent, nothing else touched.
C8_IncrementTouchesOneField ==
    [][store' # store =>
          \E id \in Addresses : \E field \in Fields :
              IncrementedExactly(store, store', id, field)]_vars

\* A document created by an increment of one field whose other field was
\* then incremented: both stand at 1.
C8_Witness ==
    /\ DOMAIN DocOf(store, AddrA1) = Fields
    /\ store[AddrA1]["likes"] = 1 /\ store[AddrA1]["dislikes"] = 1

\* Position of the entry of `address` in the token list.
IndexIn(address) == CHOOSE k \in 1..Len(tokens) : tokens[k].address = address

\* C9: in the derived view more likes come first, and entries with equal
\* likes stand in the order they have in the token list.
C9_SortedByLikesStable ==
    \A i, j \in 1..Len(filteredAndSortedTokens) :
        i < j =>
            /\ filteredAndSortedTokens[i].likes >= filteredAndSortedTokens[j].likes
            /\ (filteredAndSortedTokens[i].likes = filteredAndSortedTokens[j].likes)
                   => IndexIn(filteredAndSortedTokens[i].address)
                        < IndexIn(filteredAndSortedTokens[j].address)

\* Likes [1, 1, 2, 0] (the pattern of [3, 3, 5, 1]): the view is third,
\* first, second, fourth.
C9_Witness ==
    /\ Len(tokens) = 4 /\ searchTerm = <<>>
    /\ tokens[1].likes = 1 /\ tokens[2].likes = 1
    /\ tokens[3].likes = 2 /\ tokens[4].likes = 0
    /\ filteredAndSortedTokens = <<tokens[3], tokens[1], tokens[2], tokens[4]>>

\* needle occurs in hay at some offset, letter case ignored.
ContainsIgnoringCase(hay, needle) ==
    \E off \in 0..Len(hay) :
        /\ off + Len(needle) <= Len(hay)
        /\ \A k \in 1..Len(needle) : Lower(hay[off + k]) = Lower(needle[k])

\* C10: the derived view holds exactly the tokens whose name or address
\* contains the search term, case ignored; the empty term keeps them all.
C10_FilterIsSubstringMatch ==
    /\ {filteredAndSortedTokens[i] : i \in 1..Len(filteredAndSortedTokens)}
           = {tokens[k] : k \in {n \in 1..Len(tokens) :
                  \/ ContainsIgnoringCase(tokens[n].name, searchTerm)
                  \/ ContainsIgnoringCase(tokens[n].address, searchTerm)}}
    /\ Cardinality({filteredAndSortedTokens[i].address :
                       i \in 1..Len(filteredAndSortedTokens)})
           = Len(filteredAndSortedTokens)
    /\ searchTerm = <<>> => Len(filteredAndSortedTokens) = Len(tokens)

\* Term "foo" over all four tokens: "Foo T" matches by name, the token at
\* "fOo9" by address only, the other two are left out.
C10_Witness ==
    /\ searchTerm = <<"f", "o", "o">>
    /\ Len(tokens) = 4
    /\ {filteredAndSortedTokens[i].address : i \in 1..Len(filteredAndSortedTokens)}
           = {AddrA1, AddrFoo9}

\* C12: a callback that finishes its join is newer than the callback
\* whose join the token list holds, so that the list left when all callbacks
\* have finished is the join of the latest snapshot.
C12_OlderNeverOverwritesNewer ==
    [][\A h \in handlers :
          (h \notin handlers' /\ last'.kind = "joined") => h.id > last.shownId]_vars

\* Every snapshot owed has been delivered and every callback has finished,
\* in a live session whose listener has not errored.
Quiescent ==
    /\ mounted /\ ~subErrored
    /\ fetchCount >= 1 /\ handlers = {} /\ ~snapshotDue

\* C13: once all deliveries and callbacks have run, the row of every
\* address shows at least the increments the store has acknowledged for
\* it, and loading is false.
C13_AcknowledgedVoteIsShown ==
    Quiescent =>
        /\ ~isLoading
        /\ \A i \in 1..Len(tokens) : \A field \in Fields :
               tokens[i].address \in Addresses
                   => tokens[i][field] >= applied[<<tokens[i].address, field>>]

\* The addresses of the token list, in order.
AddressesOf(list) == [i \in 1..Len(list) |-> list[i].address]

\* C14: once a join has completed, no later step changes which addresses
\* the token list holds or their order.
C14_AddressesFixedOnceReady ==
    [][last.everJoined => AddressesOf(tokens') = AddressesOf(tokens)]_vars

\* C15: a step in which a pending write fails removes exactly that one
\* write (it is not sent again), leaves the token list, the loading flag
\* and the search term alone, and leaves no unhandled rejection.
C15_WriteFailureIsAbsorbed ==
    [][(/\ BagCardinality(pendingWrites') < BagCardinality(pendingWrites)
        /\ store' = store)
          => /\ BagCardinality(pendingWrites') = BagCardinality(pendingWrites) - 1
             /\ UNCHANGED <<tokens, isLoading, searchTerm>>
             /\ ~unhandledRejection']_vars

\* The count a validating decode reads from a field: its value when the
\* field is there and holds a natural number, 0 otherwise.
DecodedCount(firebaseData, address, field) ==
    IF /\ address \in DOMAIN firebaseData
       /\ field \in DOMAIN firebaseData[address]
       /\ firebaseData[address][field] \in Nat
    THEN firebaseData[address][field]
    ELSE 0

\* C16: every finished join shows, for each field, the decoded count: 0
\* for a field that is missing or holds no count, never a value that is not
\* a natural number.
C16_MalformedFieldsShowZero ==
    [][\A h \in handlers :
          (h \notin handlers' /\ last'.kind = "joined")
              => \A i \in 1..Len(tokens') : \A field \in Fields :
                     tokens'[i][field]
                         = DecodedCount(h.firebaseData, tokens'[i].address, field)]_vars

====
